---- MODULE Spec2Model ----
(***************************************************************************)
(* Model of src/src/data_generation/github_issues_extractor.py: the        *)
(* sequential crawler that walks the issue search of each configured       *)
(* repository page by page, fetches every issue's comments, appends one    *)
(* record per issue to the output file and consults the rate-limit         *)
(* headers of the responses.                                               *)
(*                                                                         *)
(* The remote service is the environment.  Every reply is chosen when the  *)
(* request is made: a request either fails (transport error or non-2xx     *)
(* status) or succeeds with a body and rate-limit headers.  The issues of  *)
(* one search are numbered in the order the search returns them (the k-th  *)
(* issue returned for a repository has number k); the code never reads     *)
(* the number, so nothing is lost.  Page URLs are 1..MaxPages, 1 being the *)
(* URL scrape_repo builds, and a "next" link names any later page; 0 is    *)
(* Python's None.                                                          *)
(***************************************************************************)
EXTENDS Integers, Sequences, FiniteSets, TLC

\* ---- bounds of the model ------------------------------------------------
MaxCap == 2
MaxPages == 2
MaxItems == 2
MaxStoreLines == 2
MaxRetries == 2
MaxRuns == 2

\* ---- program constants --------------------------------------------------
LowWaterMark == 20
SafetyMargin == 10
RetryWait == 60
PolitenessDelay == 1

None == "<None>"

\* The keys of TARGET_CONFIG in insertion order, the order main walks them
\* in; two of the three are kept, which is enough for one repository to
\* follow another.
TARGET_CONFIG == <<"microsoft/vscode", "facebook/react">>

Repos == {TARGET_CONFIG[i] : i \in 1..Len(TARGET_CONFIG)}

VARIABLES
    GITHUB_TOKEN,         \* the credential read at import time
    MAX_ISSUES_PER_REPO,  \* the configured cap
    initial_file,         \* the lines of OUTPUT_FILE when the run started
    output_file,          \* the lines of OUTPUT_FILE
    pc,                   \* where main() is
    exit_status,          \* the process exit status, -1 while running
    existing_counts,      \* main's existing_counts
    warnings,             \* warnings get_existing_issue_counts printed
    repo_index,           \* position of main's loop in TARGET_CONFIG
    url,                  \* scrape_repo's url (0 is None)
    issues_scraped,       \* scrape_repo's counter
    response,             \* the last successful page response of this walk
    issue_index,          \* position of the for loop in the page's items
    served,               \* issues returned so far by the pages of this walk
    retries,              \* consecutive failed requests of the current page
    last_call,            \* the most recent remote request
    last_wait,            \* the respectful_wait call made since that request
    last_sleep,           \* the time.sleep made since that request, 0 if none
    walk,                 \* per repository: how this run dealt with it
    run,                  \* the number of this process run, 1 for the first
    remote                \* per repository and URL: the page the remote was
                          \* seen to hold, for the runs that follow one another

vars == <<GITHUB_TOKEN, MAX_ISSUES_PER_REPO, initial_file, output_file, pc,
          exit_status, existing_counts, warnings, repo_index, url,
          issues_scraped, response, issue_index, served, retries, last_call,
          last_wait, last_sleep, walk, run, remote>>

Max(a, b) == IF a >= b THEN a ELSE b
Min(a, b) == IF a <= b THEN a ELSE b

\* ---- lines of the output file -------------------------------------------
\* A line json.loads accepts as an object (repo "" stands for a record whose
\* 'repo' is missing or empty), or a line json.loads rejects.
RecordLine(repo, number, comments) ==
    [kind |-> "record", repo |-> repo, issue_number |-> number, comments |-> comments]

GarbageLine == [kind |-> "garbage", repo |-> "", issue_number |-> 0, comments |-> <<>>]

InitialLines == {RecordLine(r, 0, <<>>) : r \in Repos \cup {""}} \cup {GarbageLine}

RECURSIVE SeqsUpTo(_, _)
SeqsUpTo(S, n) ==
    IF n = 0 THEN {<<>>}
    ELSE LET shorter == SeqsUpTo(S, n - 1)
         IN shorter \cup {Append(s, x) : s \in {t \in shorter : Len(t) = n - 1}, x \in S}

\* ---- rate-limit headers -------------------------------------------------
\* X-RateLimit-Remaining is absent, is not a number, or is a number;
\* reset_in is X-RateLimit-Reset minus the clock, in seconds.  Line 61
\* raises before it reads the clock, so one value of reset_in is enough.
RemainingHeaders ==
    {[kind |-> "missing", value |-> 0], [kind |-> "malformed", value |-> 0],
     [kind |-> "int", value |-> 19], [kind |-> "int", value |-> 20]}

ResetDeltas == {45}

Headers == [remaining : RemainingHeaders, reset_in : ResetDeltas]

NoHeaders == [remaining |-> [kind |-> "missing", value |-> 0], reset_in |-> 0]

get_rate_limit_status(headers) ==
    IF headers.remaining.kind = "malformed"
    THEN [raised |-> "ValueError", remaining |-> 0, reset_time |-> "str"]
    ELSE [raised |-> "none",
          remaining |-> IF headers.remaining.kind = "missing" THEN 0
                        ELSE headers.remaining.value,
          reset_time |-> "str"]

\* reset_time is the string strftime returned, and datetime.fromtimestamp
\* raises TypeError on a string: the wait of line 61 is never computed.
respectful_wait(headers) ==
    LET status == get_rate_limit_status(headers)
    IN IF status.raised # "none" THEN [raised |-> status.raised, slept |-> 0]
       ELSE IF status.remaining < LowWaterMark
            THEN [raised |-> "TypeError", slept |-> 0]
            ELSE [raised |-> "none", slept |-> 0]

NoWait == [called |-> FALSE, headers |-> NoHeaders, raised |-> "none", slept |-> 0]

WaitOf(headers) ==
    LET w == respectful_wait(headers)
    IN [called |-> TRUE, headers |-> headers, raised |-> w.raised, slept |-> w.slept]

\* ---- comments -----------------------------------------------------------
\* The bodies of the comments the remote holds for an issue.
RawComments(number) == IF number % 2 = 1 THEN <<"", "text">> ELSE <<>>

RECURSIVE FormatComments(_)
FormatComments(comments) ==
    IF comments = <<>> THEN <<>>
    ELSE IF Head(comments) # ""
         THEN <<Head(comments)>> \o FormatComments(Tail(comments))
         ELSE FormatComments(Tail(comments))

CommentReplies ==
    {[status |-> s, headers |-> NoHeaders] : s \in {"transport_error", "http_error"}}
    \cup {[status |-> "ok", headers |-> h] : h \in Headers}

get_issue_comments_propagating(number, reply) ==
    IF reply.status # "ok"
    THEN [raised |-> "RequestException", comments |-> <<>>, wait |-> NoWait]
    ELSE LET w == WaitOf(reply.headers)
         IN IF w.raised # "none"
            THEN [raised |-> w.raised, comments |-> <<>>, wait |-> w]
            ELSE [raised |-> "none", comments |-> FormatComments(RawComments(number)),
                  wait |-> w]

get_issue_comments(number, reply) ==
    IF reply.status # "ok"
    THEN [raised |-> "none", comments |-> <<>>, wait |-> NoWait]
    ELSE LET w == WaitOf(reply.headers)
         IN IF w.raised # "none"
            THEN [raised |-> w.raised, comments |-> <<>>, wait |-> w]
            ELSE [raised |-> "none", comments |-> FormatComments(RawComments(number)),
                  wait |-> w]

\* ---- the resume ledger --------------------------------------------------
RECURSIVE get_existing_issue_counts_stops_at_garbage(_)
get_existing_issue_counts_stops_at_garbage(lines) ==
    IF lines = <<>>
    THEN [counts |-> [r \in Repos |-> 0], warnings |-> 0]
    ELSE LET n == Len(lines)
             before == get_existing_issue_counts_stops_at_garbage(SubSeq(lines, 1, n - 1))
             line == lines[n]
         IN IF before.warnings > 0 THEN before
            ELSE IF line.kind = "garbage"
                 THEN [before EXCEPT !.warnings = @ + 1]
                 ELSE IF line.repo # ""
                      THEN [before EXCEPT !.counts[line.repo] = @ + 1]
                      ELSE before

RECURSIVE get_existing_issue_counts(_)
get_existing_issue_counts(lines) ==
    IF lines = <<>>
    THEN [counts |-> [r \in Repos |-> 0], warnings |-> 0]
    ELSE LET n == Len(lines)
             before == get_existing_issue_counts(SubSeq(lines, 1, n - 1))
             line == lines[n]
         IN IF line.kind = "garbage"
            THEN [before EXCEPT !.warnings = @ + 1]
            ELSE IF line.repo # ""
                 THEN [before EXCEPT !.counts[line.repo] = @ + 1]
                 ELSE before

\* ---- main and scrape_repo -----------------------------------------------
FalsyOnlyNone(token) == token = None

Falsy(token) == token = None \/ token = ""

ShouldSkipAboveCap(counts, repo, cap) == counts[repo] > cap

ShouldSkipNever(counts, repo, cap) == FALSE

ShouldSkip(counts, repo, cap) == counts[repo] >= cap

WhileCond(u, scraped, cap) == u # 0 /\ scraped < cap

ForBreakOffByOne(scraped, cap) == scraped > cap

ForBreak(scraped, cap) == scraped >= cap

NextUrl(resp) == IF resp.next # 0 THEN resp.next ELSE 0

RetryUrlGivesUp(u) == 0

RetryUrl(u) == u

NoResponse == [url |-> 0, items |-> <<>>, next |-> 0]

NoCall == [kind |-> "none", repo |-> "", url |-> 0, scraped |-> 0, ok |-> TRUE]

Call(kind, repo, u, scraped, ok) ==
    [kind |-> kind, repo |-> repo, url |-> u, scraped |-> scraped, ok |-> ok]

CurrentRepo == TARGET_CONFIG[repo_index]

\* offered: the issues the search was seen to offer, counted up to cap + 1;
\* exhausted: the walk ended on an empty page or on a page without "next".
NotWalked == [status |-> "pending", offered |-> 0, exhausted |-> FALSE, saved |-> 0]

\* A page no run has fetched yet.
NoPage == [seen |-> FALSE, n |-> 0, next |-> 0]

\* What every process run starts from, whatever the store holds.
ProcessStart ==
    /\ pc = "Idle"
    /\ exit_status = -1
    /\ existing_counts = [r \in Repos |-> 0]
    /\ warnings = 0
    /\ repo_index = 0
    /\ url = 0
    /\ issues_scraped = 0
    /\ response = NoResponse
    /\ issue_index = 0
    /\ served = 0
    /\ retries = 0
    /\ last_call = NoCall
    /\ last_wait = NoWait
    /\ last_sleep = 0
    /\ walk = [r \in Repos |-> NotWalked]

Init ==
    /\ run = 1
    /\ remote = [r \in Repos |-> [u \in 1..MaxPages |-> NoPage]]
    /\ GITHUB_TOKEN \in {None, "", "ghp_token"}
    /\ MAX_ISSUES_PER_REPO \in 0..MaxCap
    /\ initial_file \in SeqsUpTo(InitialLines, MaxStoreLines)
    /\ output_file = initial_file
    /\ ProcessStart

\* main, lines 180-183: no credential, sys.exit(1).
MainExit ==
    /\ pc = "Idle"
    /\ Falsy(GITHUB_TOKEN)
    /\ pc' = "Exited"
    /\ exit_status' = 1
    /\ UNCHANGED <<run, remote, GITHUB_TOKEN, MAX_ISSUES_PER_REPO, initial_file, output_file,
                   existing_counts, warnings, repo_index, url, issues_scraped,
                   response, issue_index, served, retries, last_call, last_wait,
                   last_sleep, walk>>

\* main, lines 185-192: the ledger is read before the loop over the targets.
MainStart ==
    /\ pc = "Idle"
    /\ ~Falsy(GITHUB_TOKEN)
    /\ LET ledger == get_existing_issue_counts(output_file)
       IN /\ existing_counts' = ledger.counts
          /\ warnings' = ledger.warnings
    /\ repo_index' = 1
    /\ pc' = "SelectingRepo"
    /\ UNCHANGED <<run, remote, GITHUB_TOKEN, MAX_ISSUES_PER_REPO, initial_file, output_file,
                   exit_status, url, issues_scraped, response, issue_index, served,
                   retries, last_call, last_wait, last_sleep, walk>>

\* main, lines 194-197: a repository at or above the cap is skipped.
SkipRepo ==
    /\ pc = "SelectingRepo"
    /\ repo_index <= Len(TARGET_CONFIG)
    /\ ShouldSkip(existing_counts, CurrentRepo, MAX_ISSUES_PER_REPO)
    /\ walk' = [walk EXCEPT ![CurrentRepo].status = "skipped"]
    /\ repo_index' = repo_index + 1
    /\ UNCHANGED <<run, remote, GITHUB_TOKEN, MAX_ISSUES_PER_REPO, initial_file, output_file, pc,
                   exit_status, existing_counts, warnings, url, issues_scraped,
                   response, issue_index, served, retries, last_call, last_wait,
                   last_sleep>>

\* main line 199 and scrape_repo lines 86-107: the first URL, the counter at 0.
StartScrape ==
    /\ pc = "SelectingRepo"
    /\ repo_index <= Len(TARGET_CONFIG)
    /\ ~ShouldSkip(existing_counts, CurrentRepo, MAX_ISSUES_PER_REPO)
    /\ url' = 1
    /\ issues_scraped' = 0
    /\ served' = 0
    /\ retries' = 0
    /\ response' = NoResponse
    /\ issue_index' = 0
    /\ walk' = [walk EXCEPT ![CurrentRepo].status = "walking"]
    /\ pc' = "Paging"
    /\ UNCHANGED <<run, remote, GITHUB_TOKEN, MAX_ISSUES_PER_REPO, initial_file, output_file,
                   exit_status, existing_counts, warnings, repo_index, last_call,
                   last_wait, last_sleep>>

\* main, line 201: the loop over the targets is over.
AllDone ==
    /\ pc = "SelectingRepo"
    /\ repo_index > Len(TARGET_CONFIG)
    /\ pc' = "Done"
    /\ exit_status' = 0
    /\ UNCHANGED <<run, remote, GITHUB_TOKEN, MAX_ISSUES_PER_REPO, initial_file, output_file,
                   existing_counts, warnings, repo_index, url, issues_scraped,
                   response, issue_index, served, retries, last_call, last_wait,
                   last_sleep, walk>>

\* The locals of scrape_repo die with its frame.
LocalsDie ==
    /\ url' = 0
    /\ issues_scraped' = 0
    /\ response' = NoResponse
    /\ issue_index' = 0
    /\ served' = 0
    /\ retries' = 0

\* scrape_repo, line 109: the while condition is false; line 159 is reached.
LoopExit ==
    /\ pc = "Paging"
    /\ ~WhileCond(url, issues_scraped, MAX_ISSUES_PER_REPO)
    /\ pc' = "Finished"
    /\ UNCHANGED <<run, remote, GITHUB_TOKEN, MAX_ISSUES_PER_REPO, initial_file, output_file,
                   exit_status, existing_counts, warnings, repo_index, url,
                   issues_scraped, response, issue_index, served, retries,
                   last_call, last_wait, last_sleep, walk>>

\* scrape_repo, line 159, and the return to main's loop of line 194.  The
\* records of the walk's last request, wait and sleep are dropped with it.
ScrapeReturn ==
    /\ pc = "Finished"
    /\ walk' = [walk EXCEPT ![CurrentRepo] =
                   [status |-> "walked",
                    offered |-> Min(served, MAX_ISSUES_PER_REPO + 1),
                    exhausted |-> url = 0 \/ response.items = <<>>,
                    saved |-> issues_scraped]]
    /\ repo_index' = repo_index + 1
    /\ pc' = "SelectingRepo"
    /\ LocalsDie
    /\ last_call' = NoCall
    /\ last_wait' = NoWait
    /\ last_sleep' = 0
    /\ UNCHANGED <<run, remote, GITHUB_TOKEN, MAX_ISSUES_PER_REPO, initial_file, output_file,
                   exit_status, existing_counts, warnings>>

\* scrape_repo, lines 154-157: the handler of requests' RequestException.
RetryAfterError ==
    /\ url' = RetryUrl(url)
    /\ last_sleep' = RetryWait
    /\ pc' = "Paging"

\* scrape_repo, lines 112-113 raise: the page request fails.
PageFail ==
    /\ pc = "Paging"
    /\ WhileCond(url, issues_scraped, MAX_ISSUES_PER_REPO)
    /\ retries < MaxRetries
    /\ retries' = retries + 1
    /\ last_call' = Call("page", CurrentRepo, url, issues_scraped, FALSE)
    /\ last_wait' = NoWait
    /\ RetryAfterError
    /\ UNCHANGED <<run, remote, GITHUB_TOKEN, MAX_ISSUES_PER_REPO, initial_file, output_file,
                   exit_status, existing_counts, warnings, repo_index,
                   issues_scraped, response, issue_index, served, walk>>

\* scrape_repo, lines 118-120: an empty page breaks out of the while loop,
\* before the cursor moves and before the rate-limit check of line 152.
BreaksOnEmptyNever(items) == FALSE

BreaksOnEmpty(items) == items = <<>>

\* scrape_repo, lines 112-120: the page request succeeds.  Nothing reads the
\* response's headers before line 152: PageEnd draws them there.  The remote
\* answers a URL it has answered before in this walk with the same page.
PageOkBody(n, next) ==
    /\ pc = "Paging"
    /\ WhileCond(url, issues_scraped, MAX_ISSUES_PER_REPO)
    /\ last_call' = Call("page", CurrentRepo, url, issues_scraped, TRUE)
    /\ IF response.url = url
       THEN /\ n = Len(response.items)
            /\ next = response.next
            /\ UNCHANGED <<response, served>>
       ELSE /\ response' = [url |-> url, items |-> [j \in 1..n |-> served + j],
                            next |-> next]
            /\ served' = served + n
    /\ retries' = 0
    /\ last_wait' = NoWait
    /\ last_sleep' = 0
    /\ IF BreaksOnEmpty(response'.items)
       THEN /\ pc' = "Finished"
            /\ UNCHANGED issue_index
       ELSE /\ pc' = "Issues"
            /\ issue_index' = 1
    /\ UNCHANGED <<run, GITHUB_TOKEN, MAX_ISSUES_PER_REPO, initial_file, output_file,
                   exit_status, existing_counts, warnings, repo_index, url,
                   issues_scraped, walk>>

\* Within one run no URL is answered twice except on a retry, which the
\* body replays from response: there is nothing to remember across runs.
PageOk(n, next) ==
    /\ PageOkBody(n, next)
    /\ UNCHANGED remote

\* The same request when runs follow one another over a fixed remote: a
\* page that an earlier request saw is returned again as it was.
PageOkFixed(n, next) ==
    /\ pc = "Paging"
    /\ url \in 1..MaxPages
    /\ remote[CurrentRepo][url].seen
          => n = remote[CurrentRepo][url].n /\ next = remote[CurrentRepo][url].next
    /\ PageOkBody(n, next)
    /\ remote' = [remote EXCEPT ![CurrentRepo][url] =
                                   [seen |-> TRUE, n |-> n, next |-> next]]

\* An uncaught exception ends the process with a traceback and status 1.
Crash ==
    /\ pc' = "Crashed"
    /\ exit_status' = 1
    /\ LocalsDie
    /\ last_call' = NoCall
    /\ last_sleep' = 0

\* The for loop of line 122 takes the items in the order of the page.
ItemAtReversed(items, index) == items[Len(items) + 1 - index]

ItemAt(items, index) == items[index]

\* scrape_repo, lines 122-145: one iteration of the for loop.
ProcessIssue(reply) ==
    /\ pc = "Issues"
    /\ issue_index <= Len(response.items)
    /\ ~ForBreak(issues_scraped, MAX_ISSUES_PER_REPO)
    /\ LET number == ItemAt(response.items, issue_index)
           got == get_issue_comments(number, reply)
           call == Call("comments", CurrentRepo, number, issues_scraped,
                        reply.status = "ok")
       IN /\ last_wait' = got.wait
          /\ IF got.raised = "none"
             THEN /\ last_call' = call
                  /\ output_file' = Append(output_file,
                                       RecordLine(CurrentRepo, number, got.comments))
                  /\ issues_scraped' = issues_scraped + 1
                  /\ last_sleep' = PolitenessDelay
                  /\ issue_index' = issue_index + 1
                  /\ UNCHANGED <<pc, exit_status, url, response, served, retries>>
             ELSE IF got.raised = "RequestException"
                  THEN /\ last_call' = call
                       /\ RetryAfterError
                       /\ UNCHANGED <<output_file, issues_scraped, issue_index,
                                      exit_status, response, served, retries>>
                  ELSE /\ Crash
                       /\ UNCHANGED output_file
    /\ UNCHANGED <<run, remote, GITHUB_TOKEN, MAX_ISSUES_PER_REPO, initial_file, existing_counts,
                   warnings, repo_index, walk>>

\* scrape_repo, lines 122-124 and 147-152: the for loop is over, the cursor
\* moves to the "next" link and the page's headers are checked.
PageEnd(headers) ==
    /\ pc = "Issues"
    /\ issue_index > Len(response.items) \/ ForBreak(issues_scraped, MAX_ISSUES_PER_REPO)
    /\ last_wait' = WaitOf(headers)
    /\ IF last_wait'.raised = "none"
       THEN /\ url' = NextUrl(response)
            /\ pc' = "Paging"
            /\ UNCHANGED <<exit_status, issues_scraped, response, issue_index, served,
                           retries, last_call, last_sleep>>
       ELSE Crash
    /\ UNCHANGED <<run, remote, GITHUB_TOKEN, MAX_ISSUES_PER_REPO, initial_file, output_file,
                   existing_counts, warnings, repo_index, walk>>

NextLinks(u) == {0} \cup {v \in 1..MaxPages : v > u}

Next ==
    \/ MainExit
    \/ MainStart
    \/ SkipRepo
    \/ StartScrape
    \/ AllDone
    \/ LoopExit
    \/ ScrapeReturn
    \/ PageFail
    \/ \E n \in 0..MaxItems : \E next \in NextLinks(url) : PageOk(n, next)
    \/ \E reply \in CommentReplies : ProcessIssue(reply)
    \/ \E headers \in Headers : PageEnd(headers)

Spec == Init /\ [][Next]_vars

\* The process is killed from outside (SIGKILL, power loss) at any point of
\* a run: every record appended so far is on disk, since line 141 closes
\* the file after each one, and everything in memory is gone.
Interrupt ==
    /\ pc \in {"Idle", "SelectingRepo", "Paging", "Issues", "Finished"}
    /\ pc' = "Killed"
    /\ exit_status' = -9
    /\ LocalsDie
    /\ last_call' = NoCall
    /\ last_wait' = NoWait
    /\ last_sleep' = 0
    /\ UNCHANGED <<run, remote, GITHUB_TOKEN, MAX_ISSUES_PER_REPO, initial_file,
                   output_file, existing_counts, warnings, repo_index, walk>>

\* The operator starts the program again with the same configuration over
\* the store the previous run left behind.
Restart ==
    /\ pc \in {"Exited", "Done", "Crashed", "Killed"}
    /\ run < MaxRuns
    /\ run' = run + 1
    /\ initial_file' = output_file
    /\ pc' = "Idle"
    /\ exit_status' = -1
    /\ existing_counts' = [r \in Repos |-> 0]
    /\ warnings' = 0
    /\ repo_index' = 0
    /\ LocalsDie
    /\ last_call' = NoCall
    /\ last_wait' = NoWait
    /\ last_sleep' = 0
    /\ walk' = [r \in Repos |-> NotWalked]
    /\ UNCHANGED <<remote, GITHUB_TOKEN, MAX_ISSUES_PER_REPO, output_file>>

\* A first run over a store that does not exist yet (line 162 returns the
\* empty counts), with a cap of at least one.
InitRestart ==
    /\ run = 1
    /\ remote = [r \in Repos |-> [u \in 1..MaxPages |-> NoPage]]
    /\ GITHUB_TOKEN \in {None, "", "ghp_token"}
    /\ MAX_ISSUES_PER_REPO \in 1..MaxCap
    /\ initial_file = <<>>
    /\ output_file = initial_file
    /\ ProcessStart

NextRestart ==
    \/ MainExit
    \/ MainStart
    \/ SkipRepo
    \/ StartScrape
    \/ AllDone
    \/ LoopExit
    \/ ScrapeReturn
    \/ PageFail
    \/ \E n \in 0..MaxItems : \E next \in NextLinks(url) : PageOkFixed(n, next)
    \/ \E reply \in CommentReplies : ProcessIssue(reply)
    \/ \E headers \in Headers : PageEnd(headers)
    \/ Interrupt
    \/ Restart

SpecRestart == InitRestart /\ [][NextRestart]_vars

\* ---- what the claims speak of -------------------------------------------
\* The lines this run appended.
Appended == SubSeq(output_file, Len(initial_file) + 1, Len(output_file))

\* The lines of a file that parse as a record naming the repository.
CountRecords(lines, repo) ==
    Cardinality({i \in 1..Len(lines) : lines[i].kind = "record" /\ lines[i].repo = repo})

CountGarbage(lines) == Cardinality({i \in 1..Len(lines) : lines[i].kind = "garbage"})

RepoPosition(repo) == CHOOSE i \in 1..Len(TARGET_CONFIG) : TARGET_CONFIG[i] = repo

\* The credential is absent or empty.
CredentialMissing == GITHUB_TOKEN \in {None, ""}

\* A step that issues a page request; a failed one leaves last_call as it was
\* only when it repeats the failed request before it.
PageCallStep ==
    /\ last_call'.kind = "page"
    /\ last_call' # last_call \/ retries' = retries + 1

PageFailStep == PageCallStep /\ ~last_call'.ok

CommentFailStep ==
    /\ last_call' # last_call
    /\ last_call'.kind = "comments"
    /\ ~last_call'.ok

\* C1, as amended: a run that reaches Done has appended, for every repository
\* it walked, exactly min(M, N) records, M being the issues the search offered
\* and N the cap, so the store holds what it held at the start plus min(M, N);
\* a walk that did not exhaust the search saw at least N issues; and every
\* remote request of a walk was made with the counter below N.
CapRespected ==
    /\ pc = "Done" =>
          \A r \in Repos :
             walk[r].status = "walked" =>
                /\ ~walk[r].exhausted => walk[r].offered >= MAX_ISSUES_PER_REPO
                /\ CountRecords(Appended, r) = Min(walk[r].offered, MAX_ISSUES_PER_REPO)
                /\ CountRecords(output_file, r) =
                      CountRecords(initial_file, r)
                      + Min(walk[r].offered, MAX_ISSUES_PER_REPO)
    /\ last_call.kind # "none" =>
          /\ last_call.repo = CurrentRepo
          /\ last_call.scraped < MAX_ISSUES_PER_REPO

\* C1, as stated: at Done the store holds exactly N records for every
\* repository the run walked and whose search offered more than N issues.
CapRespectedInStore ==
    pc = "Done" =>
       \A r \in Repos :
          walk[r].status = "walked" /\ walk[r].offered > MAX_ISSUES_PER_REPO =>
             CountRecords(output_file, r) = MAX_ISSUES_PER_REPO

CapRespectedWitness ==
    /\ pc = "Done"
    /\ \E r \in Repos :
          /\ walk[r].status = "walked"
          /\ walk[r].offered > MAX_ISSUES_PER_REPO
          /\ CountRecords(initial_file, r) = 0
          /\ CountRecords(output_file, r) = MAX_ISSUES_PER_REPO

\* C2: a repository the store already holds N or more parseable records for
\* gets no remote request and no record in this run: it is never walked and
\* its count stays what it was.
IdempotentResume ==
    \A r \in Repos :
       CountRecords(initial_file, r) >= MAX_ISSUES_PER_REPO =>
          /\ last_call.repo # r
          /\ walk[r].status \in {"pending", "skipped"}
          /\ CountRecords(Appended, r) = 0
          /\ CountRecords(output_file, r) = CountRecords(initial_file, r)

IdempotentResumeWitness ==
    /\ pc = "Done"
    /\ MAX_ISSUES_PER_REPO >= 1
    /\ \E r, q \in Repos :
          /\ CountRecords(initial_file, r) = MAX_ISSUES_PER_REPO
          /\ walk[r].status = "skipped"
          /\ walk[q].status = "walked"
          /\ CountRecords(Appended, q) >= 1

\* C3: a rate-limit check on a response whose remaining count is a number
\* below 20 sleeps max(resetAt - now, 0) plus the safety margin and returns;
\* on 20 or more it returns without sleeping.
RateLimitGating ==
    last_wait.called /\ last_wait.headers.remaining.kind = "int" =>
       /\ last_wait.raised = "none"
       /\ pc # "Crashed"
       /\ last_wait.slept =
             IF last_wait.headers.remaining.value < LowWaterMark
             THEN Max(last_wait.headers.reset_in, 0) + SafetyMargin
             ELSE 0

\* C4: a step whose comment request fails appends the issue's record with an
\* empty comment list, advances the counter and leaves the for loop at the
\* next item, the process still running.
DegradedCommentFetch ==
    [][CommentFailStep =>
          /\ output_file' = Append(output_file,
                                RecordLine(last_call'.repo, last_call'.url, <<>>))
          /\ last_call'.url = response.items[issue_index]
          /\ issues_scraped' = issues_scraped + 1
          /\ issue_index' = issue_index + 1
          /\ pc' = "Issues"
          /\ exit_status' = -1]_vars

DegradedCommentFetchWitness ==
    /\ pc = "Issues"
    /\ last_call.kind = "comments"
    /\ ~last_call.ok
    /\ RawComments(last_call.url) # <<>>
    /\ Len(output_file) > Len(initial_file)
    /\ output_file[Len(output_file)] = RecordLine(CurrentRepo, last_call.url, <<>>)
    /\ issue_index <= Len(response.items)

\* C5: a run that started with the credential never ends on an uncaught
\* exception.
OnlyFatalPreconditionStops == ~CredentialMissing => pc # "Crashed"

\* C6: a failed page request changes neither the cursor, the counter nor the
\* store, sleeps the fixed wait and leaves the loop about to request again,
\* however many failures came before; the request after a failed page request
\* is for the same URL; and no issue of a repository is appended twice.
RetryablePageFetch ==
    /\ [][PageFailStep =>
             /\ url' = url
             /\ last_call'.url = url
             /\ issues_scraped' = issues_scraped
             /\ output_file' = output_file
             /\ last_sleep' = RetryWait
             /\ pc' = "Paging"
             /\ WhileCond(url', issues_scraped', MAX_ISSUES_PER_REPO)]_vars
    /\ [][PageCallStep /\ last_call.kind = "page" /\ ~last_call.ok =>
             last_call'.url = last_call.url]_vars
    /\ [](\A i, j \in 1..Len(Appended) :
             i < j /\ Appended[i].repo = Appended[j].repo =>
                Appended[i].issue_number # Appended[j].issue_number)

RetryablePageFetchWitness ==
    /\ pc = "Paging"
    /\ retries = 2
    /\ last_call.kind = "page"
    /\ ~last_call.ok
    /\ last_call.url > 1
    /\ issues_scraped >= 1

\* C7: the first page request of a walk is for the URL scrape_repo builds, and
\* every later one is for the "next" link of the last successful response of
\* the walk, which held at least one item: after an empty page, or a page
\* without a "next" link, the walk requests nothing more.
PaginationTermination ==
    [][PageCallStep =>
          IF response = NoResponse
          THEN last_call'.url = 1
          ELSE /\ response.items # <<>>
               /\ response.next # 0
               /\ last_call'.url = response.next]_vars

PaginationTerminationWitness ==
    /\ pc = "Finished"
    /\ last_call.kind = "page"
    /\ last_call.ok
    /\ response.items = <<>>
    /\ response.next # 0
    /\ issues_scraped < MAX_ISSUES_PER_REPO

\* C8: without a credential the process makes no request, selects no
\* repository, leaves the store as it was, and can only exit, with status 1.
MissingCredential ==
    CredentialMissing =>
       /\ pc \in {"Idle", "Exited"}
       /\ pc = "Idle" => ENABLED MainExit /\ ~ENABLED MainStart
       /\ pc = "Exited" => exit_status = 1
       /\ last_call = NoCall
       /\ repo_index = 0
       /\ \A r \in Repos : walk[r].status = "pending"
       /\ output_file = initial_file

MissingCredentialWitness ==
    /\ pc = "Exited"
    /\ GITHUB_TOKEN = ""
    /\ exit_status = 1
    /\ initial_file # <<>>

PersistOrdering ==
    /\ Len(output_file) >= Len(initial_file)
    /\ SubSeq(output_file, 1, Len(initial_file)) = initial_file
    /\ \A i \in 1..Len(Appended) :
          /\ Appended[i].kind = "record"
          /\ Appended[i].repo \in Repos
          /\ Appended[i].issue_number = CountRecords(SubSeq(Appended, 1, i), Appended[i].repo)
          /\ \A j \in 1..Len(Appended) :
                i < j => RepoPosition(Appended[i].repo) <= RepoPosition(Appended[j].repo)
    /\ pc \in {"Paging", "Issues", "Finished"} =>
          /\ CountRecords(Appended, CurrentRepo) = issues_scraped
          /\ issues_scraped <= served

PersistOrderingWitness ==
    /\ pc = "Done"
    /\ Len(Appended) >= 3
    /\ \A r \in Repos : CountRecords(Appended, r) >= 1


\* The lines of the store that are records.
IsRecord(line) == line.kind = "record"

\* C11 - One record per issue: over one or more runs against a fixed
\* remote, each later run resuming from the store the earlier, possibly
\* interrupted, runs left, the output store never holds two records with
\* the same repository and issue number.
OneRecordPerIssue ==
    \A i, j \in 1..Len(output_file) :
        (/\ i < j
         /\ IsRecord(output_file[i])
         /\ IsRecord(output_file[j])
         /\ output_file[i].repo = output_file[j].repo)
            => output_file[i].issue_number # output_file[j].issue_number

\* A step that issues a remote request, for a page or for a comment list.
RequestStep ==
    \/ PageCallStep
    \/ last_call' # last_call /\ last_call'.kind = "comments"

\* C12 - Rate check after every remote call: whenever a request is issued
\* and the request before it in the same walk was answered successfully,
\* the rate budget was checked on that answer in between.
RateCheckAfterEveryCall ==
    [][(RequestStep /\ last_call.kind # "none" /\ last_call.ok)
          => last_wait.called]_vars

\* The walk of a repository ended for one of the reasons the loop of line
\* 109 and the break of line 120 allow.
WalkedToTheEnd(r) ==
    /\ walk[r].status = "walked"
    /\ walk[r].saved >= MAX_ISSUES_PER_REPO \/ walk[r].exhausted

\* Done is reached only after every repository was skipped or walked to
\* its end.
DoneOnlyAfterAll ==
    pc = "Done" => \A r \in Repos : walk[r].status = "skipped" \/ WalkedToTheEnd(r)

\* C13 - Termination: with the credential present a run never stops short
\* of Done (a run that is not at Done always has a step to take, and no
\* page request fails more than MaxRetries times in a row), and Done is
\* reached only after every repository was skipped or walked to its end.
Termination ==
    /\ ~CredentialMissing => pc = "Done" \/ ENABLED Next
    /\ DoneOnlyAfterAll

\* C14 - Bounded overshoot across restarts: after any sequence of runs, each
\* interrupted at any point or run to its end and each resuming from the
\* store its predecessors left, a repository has at most 2N - 1 records in
\* the store for a cap N >= 1: a run appends records for a repository only
\* when the store held fewer than N for it at the start of the run, and it
\* appends at most N.
BoundedOvershoot ==
    \A r \in Repos :
       MAX_ISSUES_PER_REPO >= 1 =>
          /\ CountRecords(output_file, r) <= 2 * MAX_ISSUES_PER_REPO - 1
          /\ CountRecords(Appended, r) <= MAX_ISSUES_PER_REPO
          /\ CountRecords(Appended, r) > 0
                => CountRecords(initial_file, r) < MAX_ISSUES_PER_REPO

\* A later run has taken a repository that was one record short of a cap
\* of at least two to the largest count the bound allows.
BoundedOvershootWitness ==
    /\ run > 1
    /\ MAX_ISSUES_PER_REPO >= 2
    /\ \E r \in Repos :
          /\ CountRecords(initial_file, r) = MAX_ISSUES_PER_REPO - 1
          /\ CountRecords(Appended, r) = MAX_ISSUES_PER_REPO
          /\ CountRecords(output_file, r) = 2 * MAX_ISSUES_PER_REPO - 1

====
